---- MODULE Spec2Model ----
(***************************************************************************)
(* The topic -> plan -> stories -> files -> audio -> upload pipeline of    *)
(* template_agent, as driven by the command-line front-end (cli.main) and  *)
(* by the local branch of the GUI front-end (app.main), together with the  *)
(* Output Persister (agent_core.save_outputs) called on its own.           *)
(*                                                                         *)
(* Strings are sequences of one-character strings.  Audio byte buffers are *)
(* sequences of chunks [k, n]; the empty sequence is b"".                  *)
(***************************************************************************)
EXTENDS Integers, Sequences, FiniteSets, TLC

VARIABLES
    frontend,          \* "cli" | "gui": which main() runs
    topic,             \* args.topic / st.text_input("Topic")
    with_audio,        \* args.with_audio / synthesize_audio
    gateway_key,       \* gateway_api_key / gateway_key
    cartesia_key,      \* cartesia_key
    bunny,             \* [region, zone, access_key, prefix]: the BUNNY_STORAGE_* environment
    story_count,       \* the length the StoryPlan / WrittenStories schema demands
    pc,                \* position of main()
    plan,              \* StoryPlan returned by generate_story_plan
    written,           \* WrittenStories returned by write_full_stories
    run_dir,           \* name of the directory save_outputs returned
    ordered_segments,  \* list[bytes] of the audio branch
    idx,               \* loop index of the audio branch
    combined_audio,    \* bytes of the audio branch
    disk,              \* the output root: <<dir name, file name>> -> content
    tmpfiles,          \* temporary files of audio-tool calls that exist
    calls,             \* external calls started so far, in order
    stages,            \* pipeline stages entered so far, in order
    completed,         \* pipeline stages that returned successfully
    progress,          \* progress notifications emitted to the front-end
    error,             \* what main() raised ("" while none)
    clock,             \* the wall clock, in ticks
    saves,             \* one record per save_outputs call that returned
    text               \* the text handed to _apply_pronunciation_hints

vars == <<frontend, topic, with_audio, gateway_key, cartesia_key, bunny, story_count,
          pc, plan, written, run_dir, ordered_segments, idx, combined_audio, disk,
          tmpfiles, calls, stages, completed, progress, error, clock, saves, text>>

----------------------------------------------------------------------------
(* Program constants *)

STORY_COUNT == 3
SlugLimit == 60
SilenceTenths == 8

(* Bounds of the model *)

MaxStories == 3
MaxClock == 3
MaxSaves == 2
MaxToolCalls == 2
MaxSegments == 3
MaxText == 4
TicksPerSecond == 2

----------------------------------------------------------------------------
(* Strings *)

Min(a, b) == IF a < b THEN a ELSE b

Rep(c, n) == [i \in 1..n |-> c]

Take(s, n) == SubSeq(s, 1, Min(n, Len(s)))

IsSpace(c) == c = " "

Lower(c) == IF c = "A" THEN "a" ELSE IF c = "B" THEN "b" ELSE c

LowerStr(s) == [i \in 1..Len(s) |-> Lower(s[i])]

RECURSIVE StripLeft(_)
StripLeft(s) == IF s # <<>> /\ IsSpace(Head(s)) THEN StripLeft(Tail(s)) ELSE s

RECURSIVE StripRight(_)
StripRight(s) ==
    IF s # <<>> /\ IsSpace(s[Len(s)]) THEN StripRight(SubSeq(s, 1, Len(s) - 1)) ELSE s

Strip(s) == StripRight(StripLeft(s))

RECURSIVE WordLen(_)
WordLen(s) == IF s = <<>> \/ IsSpace(Head(s)) THEN 0 ELSE 1 + WordLen(Tail(s))

\* str.split(): the maximal runs of non-whitespace characters
RECURSIVE Split(_)
Split(s) ==
    LET t == StripLeft(s)
        n == WordLen(t)
    IN  IF t = <<>> THEN <<>>
        ELSE <<SubSeq(t, 1, n)>> \o Split(SubSeq(t, n + 1, Len(t)))

RECURSIVE Join(_, _)
Join(sep, ws) ==
    IF ws = <<>> THEN <<>>
    ELSE IF Len(ws) = 1 THEN ws[1]
    ELSE ws[1] \o sep \o Join(sep, Tail(ws))

Digit(d) == CASE d = 0 -> "0" [] d = 1 -> "1" [] d = 2 -> "2" [] d = 3 -> "3"
              [] d = 4 -> "4" [] d = 5 -> "5" [] d = 6 -> "6" [] d = 7 -> "7"
              [] d = 8 -> "8" [] d = 9 -> "9"

----------------------------------------------------------------------------
(* agent_core.save_outputs *)

\* A stamp that stops at the day: strftime("%Y%m%d")
run_stamp_date_only(now) == <<"T", "Z">>

\* A stamp that stops at the minute (here: at every second second)
run_stamp_to_the_minute(now) ==
    LET min == now \div (2 * TicksPerSecond)
    IN  <<"T", Digit((min \div 10) % 10), Digit(min % 10), "Z">>

\* datetime.now(UTC).strftime("%Y%m%dT%H%M%SZ"): whole seconds, fixed width.
\* The date part is constant over the model's clock and is left out.
run_stamp(now) ==
    LET sec == now \div TicksPerSecond
    IN  <<"T", Digit((sec \div 10) % 10), Digit(sec % 10), "Z">>

topic_slug_of(plan_topic) ==
    LET cut == Take(Join(<<"-">>, Split(LowerStr(plan_topic))), SlugLimit)
    IN  IF cut = <<>> THEN <<"t", "o", "p", "i", "c">> ELSE cut

run_dir_name(plan_topic, now) == topic_slug_of(plan_topic) \o <<"_">> \o run_stamp(now)

----------------------------------------------------------------------------
(* models.py: the schema the language-model output is validated against *)

\* StoryPlan.stories: Field(min_length=STORY_COUNT, max_length=STORY_COUNT)
ValidStoryPlan(p, n) == Len(p.stories) = n

\* WrittenStories.stories: Field(min_length=STORY_COUNT, max_length=STORY_COUNT);
\* index, headline and story are checked for their types only
ValidWrittenStories(w, n) == Len(w.stories) = n

----------------------------------------------------------------------------
(* agent_core.render_story_text and the files of a run *)

render_story_text(w) ==
    [header |-> w.topic,
     body   |-> [i \in 1..Len(w.stories) |->
                   <<w.stories[i].index, w.stories[i].headline, w.stories[i].story>>]]

PLAN_JSON == "story_plan.json"
WRITTEN_JSON == "written_stories.json"
WRITTEN_TXT == "written_stories.txt"
AUDIO_WAV == "written_stories_audio.wav"
AUDIO_URL == "written_stories_audio_bunny_url.txt"

EmptyDisk == [dirs |-> {}, files |-> <<>>]

HasFile(d, dir, name) == <<dir, name>> \in DOMAIN d.files

\* Path.write_text / write_bytes: creates the file or replaces its content
WriteFile(d, dir, name, content) ==
    [d EXCEPT !.files = (<<dir, name>> :> content) @@ d.files]

\* Path.mkdir(parents=True, exist_ok=True)
Mkdir(d, dir) == [d EXCEPT !.dirs = d.dirs \cup {dir}]

\* The three files save_outputs writes, in the order it writes them
SavedFiles(p, w) ==
    << <<PLAN_JSON,    [fmt |-> "json", v |-> p]>>,
       <<WRITTEN_JSON, [fmt |-> "json", v |-> w]>>,
       <<WRITTEN_TXT,  [fmt |-> "text", v |-> render_story_text(w)]>> >>

RECURSIVE WriteFirst(_, _, _, _)
WriteFirst(d, dir, fs, k) ==
    IF k = 0 THEN d
    ELSE WriteFile(WriteFirst(d, dir, fs, k - 1), dir, fs[k][1], fs[k][2])

\* How far a save_outputs call gets before the file system fails it:
\* 0 = mkdir raises; k in 1..3 = the directory exists, k-1 files are written and
\* the k-th write raises; SaveDone = all three are written and the call returns.
\* (A write that raises is taken to leave its file as it was.)
SaveDone == 1 + Cardinality({PLAN_JSON, WRITTEN_JSON, WRITTEN_TXT})

\* save_outputs with the clock reading `now`
save_outputs(d, p, w, now, upto) ==
    LET dir == run_dir_name(p.topic, now)
    IN  IF upto = 0 THEN d
        ELSE WriteFirst(Mkdir(d, dir), dir, SavedFiles(p, w), upto - 1)

\* What one save_outputs call did, for the history
SaveRecord(d, p, w, now, upto) ==
    LET dir == run_dir_name(p.topic, now)
    IN  [dir       |-> dir,
         now       |-> now,
         plan      |-> p,
         written   |-> w,
         upto      |-> upto,
         reused    |-> dir \in d.dirs,
         clobbered |-> IF upto = 0 THEN {}
                       ELSE {k \in 1..(upto - 1) : HasFile(d, dir, SavedFiles(p, w)[k][1])}]

----------------------------------------------------------------------------
(* audio_utils.py *)

EmptyBytes == <<>>

\* The body of a successful text-to-speech response for a transcript
ClipOf(transcript) == << [k |-> "clip", n |-> transcript[2]] >>

\* What ffmpeg renders for anullsrc with -t duration (in tenths of a second)
SilenceOf(tenths) == << [k |-> "silence", n |-> tenths] >>

RECURSIVE Flatten(_)
Flatten(segs) == IF segs = <<>> THEN <<>> ELSE Head(segs) \o Flatten(Tail(segs))

\* What ffmpeg renders for concat=n=..,loudnorm=..: a header chunk, then the inputs
MixOf(segs) == << [k |-> "loudnorm", n |-> Len(segs)] >> \o Flatten(segs)

\* synthesize_cartesia_tts: one POST; raise_for_status; response.content
\* outcome: "http_error" | "empty" (a 2xx response with no body) | "ok"
synthesize_cartesia_tts(transcript, outcome) ==
    [posts |-> 1,
     err   |-> IF outcome = "http_error" THEN "HTTPError" ELSE "",
     out   |-> IF outcome = "ok" THEN ClipOf(transcript) ELSE EmptyBytes]

\* A temporary directory made with mkdtemp() and never removed
TemporaryDirectoryKept(created) == created

\* Temporary files a call leaves behind: tempfile.TemporaryDirectory() as a
\* context manager removes the directory and all it holds on every exit path.
TemporaryDirectoryExit(created) == {}

\* synthesize_silence_segment
\* outcome: "tool_error" (ffmpeg exits non-zero) | "read_error" | "ok"
synthesize_silence_segment(duration_tenths, outcome) ==
    IF duration_tenths <= 0
    THEN [err |-> "ValueError", tool_runs |-> 0, created |-> {}, left |-> {}, out |-> EmptyBytes]
    ELSE LET produced == IF outcome = "tool_error" THEN {} ELSE {"silence.wav"}
         IN  [err       |-> CASE outcome = "tool_error" -> "CalledProcessError"
                              [] outcome = "read_error" -> "OSError"
                              [] OTHER -> "",
              tool_runs |-> 1,
              created   |-> produced,
              left      |-> TemporaryDirectoryExit(produced),
              out       |-> IF outcome = "ok" THEN SilenceOf(duration_tenths) ELSE EmptyBytes]

SegmentFile(i) == <<"segment", i>>

\* A combiner that hands whatever it is given to the audio tool
concatenate_audio_segments_unguarded(audio_segments, outcome) ==
    LET inputs   == {SegmentFile(i - 1) : i \in 1..Len(audio_segments)}
        produced == IF outcome = "tool_error" THEN inputs
                    ELSE inputs \cup {<<"concatenated", 0>>}
    IN  [err       |-> CASE outcome = "tool_error" -> "CalledProcessError"
                         [] outcome = "read_error" -> "OSError"
                         [] OTHER -> "",
         tool_runs |-> 1,
         created   |-> produced,
         left      |-> {},
         out       |-> IF outcome = "ok" THEN MixOf(audio_segments) ELSE EmptyBytes]

\* concatenate_audio_segments
concatenate_audio_segments(audio_segments, outcome) ==
    IF Len(audio_segments) < 2
    THEN [err |-> "ValueError", tool_runs |-> 0, created |-> {}, left |-> {}, out |-> EmptyBytes]
    ELSE LET inputs   == {SegmentFile(i - 1) : i \in 1..Len(audio_segments)}
             produced == IF outcome = "tool_error" THEN inputs
                         ELSE inputs \cup {<<"concatenated", 0>>}
         IN  [err       |-> CASE outcome = "tool_error" -> "CalledProcessError"
                              [] outcome = "read_error" -> "OSError"
                              [] OTHER -> "",
              tool_runs |-> 1,
              created   |-> produced,
              left      |-> TemporaryDirectoryExit(produced),
              out       |-> IF outcome = "ok" THEN MixOf(audio_segments) ELSE EmptyBytes]

IsSlash(c) == c = "/"

RECURSIVE SegLen(_)
SegLen(s) == IF s = <<>> \/ IsSlash(Head(s)) THEN 0 ELSE 1 + SegLen(Tail(s))

\* [segment for segment in object_path.split("/") if segment]
RECURSIVE PathSegments(_)
PathSegments(s) ==
    IF s = <<>> THEN <<>>
    ELSE IF IsSlash(Head(s)) THEN PathSegments(Tail(s))
    ELSE LET n == SegLen(s)
         IN  <<SubSeq(s, 1, n)>> \o PathSegments(SubSeq(s, n + 1, Len(s)))

normalized_path(object_path) == Join(<<"/">>, PathSegments(object_path))

RECURSIVE StripSlashes(_)
StripSlashes(s) ==
    IF s # <<>> /\ IsSlash(Head(s)) THEN StripSlashes(Tail(s))
    ELSE IF s # <<>> /\ IsSlash(s[Len(s)]) THEN StripSlashes(SubSeq(s, 1, Len(s) - 1))
    ELSE s

\* _normalize_bunny_storage_host; a scheme prefix and the provider's domains are
\* single tokens of the string
normalize_bunny_storage_host(region) ==
    LET stripped == Strip(region)
        noscheme == IF stripped # <<>> /\ Head(stripped) \in {"https://", "http://"}
                    THEN Tail(stripped) ELSE stripped
        cleaned  == StripSlashes(noscheme)
    IN  IF cleaned = <<>> THEN <<"storage", ".bunnycdn.com">>
        ELSE IF cleaned[Len(cleaned)] = ".bunnycdn.com" THEN cleaned
        ELSE cleaned \o <<".storage", ".bunnycdn.com">>

\* upload_bytes_to_bunny_storage
\* outcome: "http_error" | "ok"
upload_bytes_to_bunny_storage(object_path, storage_zone, region, outcome) ==
    LET path == normalized_path(object_path)
    IN  IF path = <<>>
        THEN [err |-> "ValueError", puts |-> 0, url |-> <<>>]
        ELSE [err  |-> IF outcome = "http_error" THEN "HTTPError" ELSE "",
              puts |-> 1,
              url  |-> <<"https://">> \o normalize_bunny_storage_host(region)
                       \o <<"/">> \o storage_zone \o <<"/">> \o path]

----------------------------------------------------------------------------
(* audio_utils.py: _apply_pronunciation_hints *)

\* \w of the characters used here: everything but the space and the hyphen
IsWordChar(c) == ~IsSpace(c) /\ c # "-"

StartsWith(s, pat) == Len(s) >= Len(pat) /\ SubSeq(s, 1, Len(pat)) = pat

\* \bpat\b matches at the head of s, prev being the character before s
\* ("" at the start of the text): pat begins and ends with a word character,
\* so each \b wants a non-word character or the end of the text on its far side
MatchesWord(prev, s, pat) ==
    /\ StartsWith(s, pat)
    /\ prev = "" \/ ~IsWordChar(prev)
    /\ Len(s) = Len(pat) \/ ~IsWordChar(s[Len(pat) + 1])

\* re.sub(r"\bpat\b", replacement, s): the matches from left to right, without
\* overlap, each replaced
RECURSIVE SubFrom(_, _, _, _)
SubFrom(prev, s, pat, replacement) ==
    IF s = <<>> THEN <<>>
    ELSE IF MatchesWord(prev, s, pat)
    THEN replacement \o SubFrom(pat[Len(pat)], SubSeq(s, Len(pat) + 1, Len(s)), pat, replacement)
    ELSE <<Head(s)>> \o SubFrom(Head(s), Tail(s), pat, replacement)

re_sub(pat, replacement, s) == SubFrom("", s, pat, replacement)

substitutions ==
    <<<<<<"C", "E", "N", "T", "C", "O", "M">>, <<"S", "E", "N", "T", "-", "k", "o", "m">>>>,
       <<<<"N", "A", "T", "O">>, <<"N", "A", "Y", "-", "t", "o", "h">>>>,
       <<<<"F", "E", "M", "A">>, <<"F", "E", "E", "-", "m", "u", "h">>>>,
       <<<<"C", "I", "S", "A">>, <<"S", "I", "Z", "-", "u", "h">>>>,
       <<<<"D", "H", "S">>, <<"D", " ", "H", " ", "S">>>>,
       <<<<"T", "S", "A">>, <<"T", " ", "S", " ", "A">>>>,
       <<<<"F", "A", "A">>, <<"F", " ", "A", " ", "A">>>>,
       <<<<"E", "P", "A">>, <<"E", " ", "P", " ", "A">>>>,
       <<<<"D", "O", "J">>, <<"D", " ", "O", " ", "J">>>>,
       <<<<"F", "B", "I">>, <<"F", " ", "B", " ", "I">>>>,
       <<<<"N", "T", "S", "B">>, <<"N", " ", "T", " ", "S", " ", "B">>>>,
       <<<<"C", "B", "P">>, <<"C", " ", "B", " ", "P">>>>,
       <<<<"I", "C", "E">>, <<"I", " ", "C", " ", "E">>>>>>

\* for pattern, replacement in substitutions[k..]: updated = re.sub(...)
RECURSIVE SubstituteFrom(_, _)
SubstituteFrom(k, updated) ==
    IF k > Len(substitutions) THEN updated
    ELSE SubstituteFrom(k + 1, re_sub(substitutions[k][1], substitutions[k][2], updated))

\* text.replace("  ", " "): one pass over the doubled spaces
RECURSIVE replace_double_spaces(_)
replace_double_spaces(s) ==
    IF Len(s) < 2 THEN s
    ELSE IF IsSpace(s[1]) /\ IsSpace(s[2])
    THEN <<" ">> \o replace_double_spaces(SubSeq(s, 3, Len(s)))
    ELSE <<Head(s)>> \o replace_double_spaces(Tail(s))

\* " ".join(updated.split())
collapse_whitespace(updated) == Join(<<" ">>, Split(updated))

apply_pronunciation_hints(t) == collapse_whitespace(SubstituteFrom(1, t))

----------------------------------------------------------------------------
(* What the collaborators may answer *)

\* A StoryPlan-shaped payload with n ideas; idea i has headline i
PlanOf(t, n) == [topic |-> t, stories |-> [i \in 1..n |-> [headline |-> i, angle |-> i]]]

\* The payloads the language model may return for a topic: the topic echoed or
\* rewritten, with the demanded number of ideas or one too many
PlanPayloads(asked, n) == {PlanOf(t, m) : t \in {asked, <<"B">>}, m \in {n, n + 1}}

\* A WrittenStories-shaped payload for plan p: story i carries index ix[i] and
\* headline hl[i]
WrittenOf(p, ix, hl) ==
    [topic   |-> p.topic,
     stories |-> [i \in 1..Len(ix) |-> [index |-> ix[i], headline |-> hl[i], story |-> i]]]

\* The payloads the language model may return for a plan: the faithful one, one
\* with the indices reversed, one with the first headline rewritten, one with a
\* story missing
WrittenPayloads(p) ==
    LET n  == Len(p.stories)
        ix == [i \in 1..n |-> i]
        hl == [i \in 1..n |-> p.stories[i].headline]
    IN  {WrittenOf(p, ix, hl),
         WrittenOf(p, [i \in 1..n |-> n + 1 - i], hl),
         WrittenOf(p, ix, [i \in 1..n |-> IF i = 1 THEN 0 ELSE hl[i]]),
         WrittenOf(p, SubSeq(ix, 1, n - 1), SubSeq(hl, 1, n - 1))}

NoPlan == PlanOf(<<>>, 0)
NoWritten == WrittenOf(NoPlan, <<>>, <<>>)

----------------------------------------------------------------------------
(* cli.main and app.main: configuration *)

Topics == {<<>>, <<"a">>, <<" ", "A">>}
Keys == {<<>>, <<"k">>}

BunnyEnv(r, z, k, pre) == [region |-> r, zone |-> z, access_key |-> k, prefix |-> pre]

\* The BUNNY_STORAGE_* environment: complete, complete with an empty prefix,
\* and with the region blank, the zone unset, the access key unset
BunnyEnvs ==
    {BunnyEnv(<<"e">>, <<"z">>, <<"s">>, <<"p">>),
     BunnyEnv(<<"e">>, <<"z">>, <<"s">>, <<"/">>),
     BunnyEnv(<<" ">>, <<"z">>, <<"s">>, <<"p">>),
     BunnyEnv(<<"e">>, <<>>, <<"s">>, <<"p">>),
     BunnyEnv(<<"e">>, <<"z">>, <<>>, <<"p">>)}

bunny_region == Strip(bunny.region)
bunny_zone == Strip(bunny.zone)
bunny_access_key == Strip(bunny.access_key)
bunny_prefix == StripSlashes(bunny.prefix)

BunnyMissing == bunny_region = <<>> \/ bunny_zone = <<>> \/ bunny_access_key = <<>>

\* A front-end that does not look at the storage settings before it starts
cli_config_error_without_storage ==
    IF gateway_key = <<>> THEN "Missing API key"
    ELSE IF with_audio /\ cartesia_key = <<>> THEN "CARTESIA_API_KEY is missing"
    ELSE ""

\* cli.main, lines 47-65: the RuntimeError raised before step 1, "" if none
cli_config_error ==
    IF gateway_key = <<>> THEN "Missing API key"
    ELSE IF with_audio /\ cartesia_key = <<>> THEN "CARTESIA_API_KEY is missing"
    ELSE IF with_audio /\ BunnyMissing THEN "Bunny upload configuration is missing"
    ELSE ""

\* app.main, lines 214-235: the st.warning shown before returning, "" if none
gui_config_warning ==
    IF Strip(topic) = <<>> THEN "Enter a topic."
    ELSE IF gateway_key = <<>> THEN "Provide a Gateway API key."
    ELSE IF with_audio /\ cartesia_key = <<>> THEN "Provide a Cartesia key"
    ELSE IF with_audio /\ BunnyMissing THEN "Bunny upload configuration"
    ELSE ""

config_problem == IF frontend = "cli" THEN cli_config_error ELSE gui_config_warning

\* The topic handed to generate_story_plan: args.topic, or topic.strip()
plan_topic_arg == IF frontend = "cli" THEN topic ELSE Strip(topic)

\* An audio branch guarded by the key alone
audio_branch_by_key == cartesia_key # <<>>

\* `if args.with_audio and cartesia_key:` / `if synthesize_audio:`
audio_branch == IF frontend = "cli" THEN with_audio /\ cartesia_key # <<>> ELSE with_audio

----------------------------------------------------------------------------
(* cli.main and app.main: progress notifications *)

Numbered(stage, i, n) == [stage |-> stage, numbered |-> TRUE, index |-> i, total |-> n]
Plain(stage) == [stage |-> stage, numbered |-> FALSE, index |-> 0, total |-> 0]

\* A total with its two cases swapped
total_steps_swapped == IF with_audio THEN 3 ELSE 4

\* app.main line 259, local branch
total_steps == IF with_audio THEN 4 ELSE 3

\* print("Step i/3: ...") / _set_step(i, ...)
step_note(stage, i) ==
    IF frontend = "cli" THEN Numbered(stage, i, 3) ELSE Numbered(stage, i, total_steps)

\* print("Audio: synthesizing ...") / _set_step(4, ...)
audio_note ==
    IF frontend = "cli" THEN Plain("SynthesizingAudio")
    ELSE Numbered("SynthesizingAudio", 4, total_steps)

\* print("Audio uploaded to Bunny Storage: ...") after the upload; the GUI
\* reports the URL only after the workflow block
uploaded_notes == IF frontend = "cli" THEN <<Plain("Uploaded")>> ELSE <<>>

\* print("Done. Output folder: ...") / status_line.success("Done.")
done_note == Plain("Done")

----------------------------------------------------------------------------
(* cli.main and app.main: the pipeline *)

inputs == <<frontend, topic, with_audio, gateway_key, cartesia_key, bunny, story_count, text>>

Call(op, arg, ok) == [op |-> op, arg |-> arg, ok |-> ok]

\* A call of an audio_utils function with what it did: HTTP requests sent,
\* runs of the audio tool, temporary files created and left, value returned
Effects(op, arg, err, requests, tool_runs, created, left, out) ==
    [op |-> op, arg |-> arg, ok |-> err = "", err |-> err, requests |-> requests,
     tool_runs |-> tool_runs, created |-> created, left |-> left, out |-> out]

SpeechCall(arg, r) == Effects("tts", arg, r.err, r.posts, 0, {}, {}, r.out)
ToolCall(op, arg, r) == Effects(op, arg, r.err, 0, r.tool_runs, r.created, r.left, r.out)
UploadCall(arg, r) == Effects("upload", arg, r.err, r.puts, 0, {}, {}, r.url)

\* A main() that catches the exception, notes it and goes on to report Done
RaiseSwallowed(e) == pc' = "finish" /\ error' = e

\* An exception leaves main(): nothing after the raising statement runs
Raise(e) == pc' = "failed" /\ error' = e

\* A main() that goes from writing straight to the audio branch
after_writing_skips_persist == "audio"

\* Where main() goes once write_full_stories has returned
after_writing == "persist"

\* Where main() goes once save_outputs has returned
after_persisting == IF audio_branch THEN "audio" ELSE "finish"

\* A loop that pads after every clip, the last included
silence_follows_every_clip(i, n) == i + 1 <= n

\* `if idx + 1 < len(written.stories):`
silence_follows(i, n) == i + 1 < n

\* A branch that hands any non-empty list to the combiner
combiner_runs_on_one(segs) == Len(segs) >= 1

\* `if len(ordered_segments) >= 2:`
combiner_runs(segs) == Len(segs) >= 2

\* _story_tts_transcript, as <<headline, story>>
story_tts_transcript(story) == <<story.headline, story.story>>

\* An object path that names the run's folder only
object_path_of_folder(dir) == bunny_prefix \o <<"/">> \o dir

\* f"{bunny_prefix}/{run_dir.name}/written_stories_audio.wav"
object_path_of(dir) == bunny_prefix \o <<"/">> \o dir \o <<"/">> \o <<AUDIO_WAV>>

PipelineInit ==
    /\ frontend \in {"cli", "gui"}
    /\ topic \in Topics
    /\ with_audio \in BOOLEAN
    /\ gateway_key \in Keys
    /\ cartesia_key \in Keys
    /\ bunny \in BunnyEnvs
    /\ pc = "start"
    /\ plan = NoPlan
    /\ written = NoWritten
    /\ run_dir = <<>>
    /\ ordered_segments = <<>>
    /\ idx = 0
    /\ combined_audio = EmptyBytes
    /\ disk = EmptyDisk
    /\ tmpfiles = {}
    /\ calls = <<>>
    /\ stages = <<>>
    /\ completed = {}
    /\ progress = <<>>
    /\ error = ""
    /\ clock = 0
    /\ saves = <<>>
    /\ text = <<>>

Init == PipelineInit /\ story_count = STORY_COUNT

\* The same program with the schema's length left open
InitN == PipelineInit /\ story_count \in 0..MaxStories

\* The checks before step 1
Validate ==
    /\ pc = "start"
    /\ IF config_problem # ""
       THEN pc' = "rejected" /\ error' = config_problem
       ELSE pc' = "plan" /\ error' = ""
    /\ UNCHANGED <<inputs, plan, written, run_dir, ordered_segments, idx, combined_audio,
                   disk, tmpfiles, calls, stages, completed, progress, clock, saves>>

\* Step 1: generate_story_plan
GeneratePlan ==
    /\ pc = "plan"
    /\ stages' = Append(stages, "Planning")
    /\ progress' = Append(progress, step_note("Planning", 1))
    /\ \/ /\ calls' = Append(calls, Call("plan", plan_topic_arg, FALSE))
          /\ Raise("ModelHTTPError")
          /\ UNCHANGED <<plan, completed>>
       \/ \E p \in PlanPayloads(plan_topic_arg, story_count) :
            IF ValidStoryPlan(p, story_count)
            THEN /\ calls' = Append(calls, Call("plan", plan_topic_arg, TRUE))
                 /\ plan' = p
                 /\ completed' = completed \cup {"Planning"}
                 /\ pc' = "write"
                 /\ UNCHANGED error
            ELSE /\ calls' = Append(calls, Call("plan", plan_topic_arg, FALSE))
                 /\ Raise("UnexpectedModelBehavior")
                 /\ UNCHANGED <<plan, completed>>
    /\ UNCHANGED <<inputs, written, run_dir, ordered_segments, idx, combined_audio,
                   disk, tmpfiles, clock, saves>>

\* Step 2: write_full_stories
WriteStories ==
    /\ pc = "write"
    /\ stages' = Append(stages, "Writing")
    /\ progress' = Append(progress, step_note("Writing", 2))
    /\ \/ /\ calls' = Append(calls, Call("write", plan, FALSE))
          /\ Raise("ModelHTTPError")
          /\ UNCHANGED <<written, completed>>
       \/ \E w \in WrittenPayloads(plan) :
            IF ValidWrittenStories(w, story_count)
            THEN /\ calls' = Append(calls, Call("write", plan, TRUE))
                 /\ written' = w
                 /\ completed' = completed \cup {"Writing"}
                 /\ pc' = after_writing
                 /\ UNCHANGED error
            ELSE /\ calls' = Append(calls, Call("write", plan, FALSE))
                 /\ Raise("UnexpectedModelBehavior")
                 /\ UNCHANGED <<written, completed>>
    /\ UNCHANGED <<inputs, plan, run_dir, ordered_segments, idx, combined_audio,
                   disk, tmpfiles, clock, saves>>

\* Step 3: save_outputs
SaveOutputs ==
    /\ pc = "persist"
    /\ stages' = Append(stages, "Persisting")
    /\ progress' = Append(progress, step_note("Persisting", 3))
    /\ \E now \in clock..MaxClock, upto \in 0..SaveDone :
         /\ clock' = now
         /\ disk' = save_outputs(disk, plan, written, now, upto)
         /\ saves' = Append(saves, SaveRecord(disk, plan, written, now, upto))
         /\ calls' = Append(calls, Call("persist", <<plan, written>>, upto = SaveDone))
         /\ IF upto = SaveDone
            THEN /\ run_dir' = run_dir_name(plan.topic, now)
                 /\ completed' = completed \cup {"Persisting"}
                 /\ pc' = after_persisting
                 /\ UNCHANGED error
            ELSE /\ Raise("OSError")
                 /\ UNCHANGED <<run_dir, completed>>
    /\ UNCHANGED <<inputs, plan, written, ordered_segments, idx, combined_audio, tmpfiles>>

\* The audio branch is entered: ordered_segments = []
BeginAudio ==
    /\ pc = "audio"
    /\ stages' = Append(stages, "SynthesizingAudio")
    /\ progress' = Append(progress, audio_note)
    /\ ordered_segments' = <<>>
    /\ idx' = 0
    /\ pc' = IF Len(written.stories) > 0 THEN "tts" ELSE "combine"
    /\ UNCHANGED <<inputs, plan, written, run_dir, combined_audio, disk, tmpfiles,
                   calls, completed, error, clock, saves>>

\* One loop iteration, first half: synthesize_cartesia_tts for story idx
SynthesizeClip ==
    /\ pc = "tts"
    /\ \E outcome \in {"http_error", "empty", "ok"} :
         LET story == written.stories[idx + 1]
             r == synthesize_cartesia_tts(story_tts_transcript(story), outcome)
         IN  /\ calls' = Append(calls, SpeechCall(story_tts_transcript(story), r))
             /\ IF r.err # ""
                THEN /\ Raise(r.err)
                     /\ UNCHANGED <<ordered_segments, idx>>
                ELSE /\ ordered_segments' = Append(ordered_segments, r.out)
                     /\ UNCHANGED error
                     /\ IF silence_follows(idx, Len(written.stories))
                        THEN pc' = "silence" /\ UNCHANGED idx
                        ELSE /\ idx' = idx + 1
                             /\ pc' = IF idx + 1 < Len(written.stories) THEN "tts" ELSE "combine"
    /\ UNCHANGED <<inputs, plan, written, run_dir, combined_audio, disk, tmpfiles,
                   stages, completed, progress, clock, saves>>

\* One loop iteration, second half: synthesize_silence_segment(duration_seconds=0.8)
SynthesizeSilence ==
    /\ pc = "silence"
    /\ \E outcome \in {"tool_error", "read_error", "ok"} :
         LET r == synthesize_silence_segment(SilenceTenths, outcome)
         IN  /\ calls' = Append(calls, ToolCall("silence", SilenceTenths, r))
             /\ tmpfiles' = tmpfiles \cup r.left
             /\ IF r.err # ""
                THEN /\ Raise(r.err)
                     /\ UNCHANGED <<ordered_segments, idx>>
                ELSE /\ ordered_segments' = Append(ordered_segments, r.out)
                     /\ idx' = idx + 1
                     /\ pc' = IF idx + 1 < Len(written.stories) THEN "tts" ELSE "combine"
                     /\ UNCHANGED error
    /\ UNCHANGED <<inputs, plan, written, run_dir, combined_audio, disk,
                   stages, completed, progress, clock, saves>>

\* After the loop: concatenate, pass the single buffer on, or have no audio
Combine ==
    /\ pc = "combine"
    /\ IF combiner_runs(ordered_segments)
       THEN \E outcome \in {"tool_error", "read_error", "ok"} :
              LET r == concatenate_audio_segments(ordered_segments, outcome)
              IN  /\ calls' = Append(calls, ToolCall("combine", ordered_segments, r))
                  /\ tmpfiles' = tmpfiles \cup r.left
                  /\ IF r.err # ""
                     THEN /\ Raise(r.err)
                          /\ UNCHANGED <<combined_audio, completed>>
                     ELSE /\ combined_audio' = r.out
                          /\ completed' = completed \cup {"SynthesizingAudio"}
                          /\ pc' = IF r.out # EmptyBytes THEN "upload" ELSE "finish"
                          /\ UNCHANGED error
       ELSE /\ combined_audio' = IF ordered_segments # <<>> THEN ordered_segments[1]
                                 ELSE EmptyBytes
            /\ completed' = completed \cup {"SynthesizingAudio"}
            /\ pc' = IF combined_audio' # EmptyBytes THEN "upload" ELSE "finish"
            /\ UNCHANGED <<calls, tmpfiles, error>>
    /\ UNCHANGED <<inputs, plan, written, run_dir, ordered_segments, idx, disk,
                   stages, progress, clock, saves>>

\* An audio stage that uploads first and writes both files once the upload
\* has returned
UploadThenWriteBoth ==
    /\ pc = "upload"
    /\ stages' = Append(stages, "Uploading")
    /\ \E outcome \in {"http_error", "ok"}, files_written \in BOOLEAN :
         LET r   == upload_bytes_to_bunny_storage(object_path_of(run_dir), bunny_zone,
                                                  bunny_region, outcome)
             wav == WriteFile(disk, run_dir, AUDIO_WAV, [fmt |-> "bytes", v |-> combined_audio])
         IN  /\ calls' = Append(calls, UploadCall(object_path_of(run_dir), r))
             /\ IF r.err # "" \/ ~files_written
                THEN /\ Raise(IF r.err # "" THEN r.err ELSE "OSError")
                     /\ UNCHANGED <<disk, completed, progress>>
                ELSE /\ disk' = WriteFile(wav, run_dir, AUDIO_URL, [fmt |-> "text", v |-> r.url])
                     /\ completed' = completed \cup {"Uploading"}
                     /\ progress' = progress \o uploaded_notes
                     /\ pc' = "finish"
                     /\ UNCHANGED error
    /\ UNCHANGED <<inputs, plan, written, run_dir, ordered_segments, idx, combined_audio,
                   tmpfiles, clock, saves>>

\* `if combined_audio:` write the .wav, upload it, write the URL file
Upload ==
    /\ pc = "upload"
    /\ stages' = Append(stages, "Uploading")
    /\ \/ \* write_bytes raises
          /\ Raise("OSError")
          /\ UNCHANGED <<disk, calls, completed, progress>>
       \/ \E outcome \in {"http_error", "ok"}, url_written \in BOOLEAN :
            LET wav == WriteFile(disk, run_dir, AUDIO_WAV, [fmt |-> "bytes", v |-> combined_audio])
                r   == upload_bytes_to_bunny_storage(object_path_of(run_dir), bunny_zone,
                                                     bunny_region, outcome)
            IN  /\ calls' = calls \o (IF r.puts = 1
                                      THEN <<UploadCall(object_path_of(run_dir), r)>>
                                      ELSE <<>>)
                /\ IF r.err # ""
                   THEN /\ disk' = wav
                        /\ Raise(r.err)
                        /\ UNCHANGED <<completed, progress>>
                   ELSE IF ~url_written
                   THEN /\ disk' = wav
                        /\ Raise("OSError")
                        /\ UNCHANGED <<completed, progress>>
                   ELSE /\ disk' = WriteFile(wav, run_dir, AUDIO_URL, [fmt |-> "text", v |-> r.url])
                        /\ completed' = completed \cup {"Uploading"}
                        /\ progress' = progress \o uploaded_notes
                        /\ pc' = "finish"
                        /\ UNCHANGED error
    /\ UNCHANGED <<inputs, plan, written, run_dir, ordered_segments, idx, combined_audio,
                   tmpfiles, clock, saves>>

\* The run reports Done
Finish ==
    /\ pc = "finish"
    /\ stages' = Append(stages, "Done")
    /\ progress' = Append(progress, done_note)
    /\ pc' = "done"
    /\ UNCHANGED <<inputs, plan, written, run_dir, ordered_segments, idx, combined_audio,
                   disk, tmpfiles, calls, completed, error, clock, saves>>

Next ==
    \/ Validate
    \/ GeneratePlan
    \/ WriteStories
    \/ SaveOutputs
    \/ BeginAudio
    \/ SynthesizeClip
    \/ SynthesizeSilence
    \/ Combine
    \/ Upload
    \/ Finish

Spec == Init /\ [][Next]_vars

SpecN == InitN /\ [][Next]_vars

----------------------------------------------------------------------------
(* agent_core.save_outputs called repeatedly on one output root *)

LongTopic(last) == Rep("a", SlugLimit) \o <<last>>

\* Topics of the plans handed to save_outputs: two that differ in case and
\* leading whitespace only, two that differ past the slug's limit
PersistTopics == {<<"a">>, <<" ", "A">>, LongTopic("a"), LongTopic("b")}

\* How a call ends: mkdir raises, the second write raises, the call returns
PersistOutcomes == {0, 2, SaveDone}

PersistInit ==
    /\ frontend = "cli"
    /\ topic = <<>>
    /\ with_audio = FALSE
    /\ gateway_key = <<>>
    /\ cartesia_key = <<>>
    /\ bunny = BunnyEnv(<<>>, <<>>, <<>>, <<>>)
    /\ story_count = STORY_COUNT
    /\ pc = "persister"
    /\ plan = NoPlan
    /\ written = NoWritten
    /\ run_dir = <<>>
    /\ ordered_segments = <<>>
    /\ idx = 0
    /\ combined_audio = EmptyBytes
    /\ disk = EmptyDisk
    /\ tmpfiles = {}
    /\ calls = <<>>
    /\ stages = <<>>
    /\ completed = {}
    /\ progress = <<>>
    /\ error = ""
    /\ clock = 0
    /\ saves = <<>>
    /\ text = <<>>

\* One call of save_outputs(output_dir, plan, written) at clock reading `now`
PersistCall ==
    /\ pc = "persister"
    /\ Len(saves) < MaxSaves
    /\ \E t \in PersistTopics, now \in clock..MaxClock, upto \in PersistOutcomes :
         LET p == PlanOf(t, STORY_COUNT)
             w == WrittenOf(p, [i \in 1..STORY_COUNT |-> i],
                            [i \in 1..STORY_COUNT |-> p.stories[i].headline])
         IN  /\ clock' = now
             /\ plan' = p
             /\ written' = w
             /\ disk' = save_outputs(disk, p, w, now, upto)
             /\ saves' = Append(saves, SaveRecord(disk, p, w, now, upto))
             /\ run_dir' = IF upto = SaveDone THEN run_dir_name(t, now) ELSE run_dir
    /\ UNCHANGED <<inputs, pc, ordered_segments, idx, combined_audio, tmpfiles, calls,
                   stages, completed, progress, error>>

SpecPersist == PersistInit /\ [][PersistCall]_vars

----------------------------------------------------------------------------
(* Properties *)

CallsOf(op) == {i \in 1..Len(calls) : calls[i].op = op}
AudioOps == {"tts", "silence", "combine", "upload"}
NotesOf(stage) == {i \in 1..Len(progress) : progress[i].stage = stage}
Entered(stage) == \E i \in 1..Len(stages) : stages[i] = stage

IsPrefix(s, t) == Len(s) <= Len(t) /\ SubSeq(t, 1, Len(s)) = s

ShortRun == <<"Planning", "Writing", "Persisting", "Done">>
AudioRun == <<"Planning", "Writing", "Persisting", "SynthesizingAudio", "Uploading", "Done">>

\* C1: the stages of a run are entered strictly forward, Planning -> Writing ->
\* Persisting -> (SynthesizingAudio -> Uploading)? -> Done: the stages entered so
\* far are a prefix of that order (so none is entered twice or out of turn), each
\* stage but the one entered last has returned successfully, and once Done is
\* reported every other stage entered has returned successfully.
C1_StagesStrictlyForward ==
    /\ IsPrefix(stages, IF with_audio THEN AudioRun ELSE ShortRun)
    /\ \A i \in 1..(Len(stages) - 1) : stages[i] \in completed
    /\ completed \subseteq {stages[i] : i \in 1..Len(stages)}
    /\ pc = "done" <=> Entered("Done")

C1_Witness == pc = "done" /\ stages = AudioRun /\ frontend = "gui"

\* The state a failed run is in
C2_FailedState ==
    /\ error # ""
    /\ ~Entered("Done")
    /\ stages # <<>> /\ stages[Len(stages)] \notin completed
    /\ \A i \in 1..Len(calls) : ~calls[i].ok => i = Len(calls)

\* A step keeps every directory and file that is on disk, with its content
C2_FilesKept ==
    /\ disk.dirs \subseteq disk'.dirs
    /\ \A f \in DOMAIN disk.files : f \in DOMAIN disk'.files /\ disk'.files[f] = disk.files[f]

C2_Step ==
    /\ pc # "failed"
    /\ (Len(calls') > Len(calls) /\ ~calls'[Len(calls')].ok) =>
            pc' = "failed" /\ error' \in {"ModelHTTPError", "UnexpectedModelBehavior", "OSError",
                                        "HTTPError", "CalledProcessError"}
    /\ pc' = "failed" => C2_FailedState' /\ C2_FilesKept
    /\ Entered("Done")' => \A i \in 1..Len(calls) : calls[i].ok

\* C2: a failing stage halts the run. A step in which a call fails ends in the
\* failed state with the call's own error; in the failed state Done has not been
\* reported, the failed call is the last call and the only failed one, the stage
\* entered last has not completed; the step that fails leaves every file that
\* was on disk in place with its content, and no step is taken after it.
C2_FailureHalts == [][C2_Step]_vars

C2_Witness ==
    /\ pc = "failed"
    /\ error = "HTTPError"
    /\ CallsOf("upload") # {}
    /\ HasFile(disk, run_dir, AUDIO_WAV) /\ HasFile(disk, run_dir, PLAN_JSON)

\* C3: when audio synthesis was not requested the run calls none of the Speech
\* Synthesizer, Silence Generator, Audio Combiner and Object Storage Uploader,
\* writes neither the audio file nor the URL file, and goes from Persisting
\* directly to Done.
C3_NoAudioNoAudioStages ==
    ~with_audio =>
        /\ \A i \in 1..Len(calls) : calls[i].op \notin AudioOps
        /\ \A f \in DOMAIN disk.files : f[2] \notin {AUDIO_WAV, AUDIO_URL}
        /\ IsPrefix(stages, ShortRun)
        /\ tmpfiles = {}
        /\ "Persisting" \in completed => pc \in {"finish", "done"}

C3_Witness == ~with_audio /\ cartesia_key # <<>> /\ pc = "done" /\ stages = ShortRun

\* The calls of the synthesis loop, in order
LoopCalls == SelectSeq(calls, LAMBDA c : c.op \in {"tts", "silence"})

AudioLoopOver == pc \in {"combine", "upload", "finish", "done"} /\ Entered("SynthesizingAudio")

\* C4: in the audio branch the Speech Synthesizer is called once per written
\* story, in the stories' order, with one 0.8 s silence generated after each clip
\* but the last: the loop's calls go tts(s_1), silence, tts(s_2), ..., the segment
\* list holds the returned buffers in that order, and when the loop is over the
\* list is clip_1, silence, ..., clip_n, of length 2n-1 for n >= 1 stories (so
\* it neither starts nor ends with silence, nor holds two silences in a row).
C4_ClipsAndSilences ==
    LET n == Len(written.stories)
        story(k) == written.stories[k]
    IN  /\ \A i \in 1..Len(LoopCalls) :
              IF i % 2 = 1
              THEN /\ LoopCalls[i].op = "tts"
                   /\ LoopCalls[i].arg = story_tts_transcript(story((i + 1) \div 2))
              ELSE /\ LoopCalls[i].op = "silence"
                   /\ LoopCalls[i].arg = SilenceTenths
        /\ Len(LoopCalls) <= IF n = 0 THEN 0 ELSE 2 * n - 1
        /\ pc \in {"tts", "silence", "combine"} /\ error = "" =>
              Len(ordered_segments) = Len(LoopCalls)
        /\ \A i \in 1..Len(ordered_segments) :
              IF i % 2 = 1
              THEN ordered_segments[i] \in {ClipOf(story_tts_transcript(story((i + 1) \div 2))),
                                            EmptyBytes}
              ELSE ordered_segments[i] = SilenceOf(SilenceTenths)
        /\ AudioLoopOver =>
              /\ Len(ordered_segments) = IF n = 0 THEN 0 ELSE 2 * n - 1
              /\ Cardinality(CallsOf("tts")) = n
              /\ Cardinality(CallsOf("silence")) = IF n = 0 THEN 0 ELSE n - 1

C4_Witness ==
    /\ pc = "done"
    /\ Len(written.stories) = 2
    /\ Len(ordered_segments) = 3
    /\ ordered_segments[2] = SilenceOf(SilenceTenths)

AudioBranchOver == "SynthesizingAudio" \in completed

\* C5: the Audio Combiner is only ever called with two or more segments; with
\* exactly one segment the combined audio is that segment and the combiner is
\* not called; with no segment there is no combined audio and neither the
\* combiner nor the uploader is called.
C5_CombinerPrecondition ==
    /\ \A i \in CallsOf("combine") : Len(calls[i].arg) >= 2 /\ calls[i].arg = ordered_segments
    /\ AudioBranchOver /\ Len(ordered_segments) >= 2 => Cardinality(CallsOf("combine")) = 1
    /\ AudioBranchOver /\ Len(ordered_segments) = 1 =>
          combined_audio = ordered_segments[1] /\ CallsOf("combine") = {}
    /\ AudioBranchOver /\ Len(ordered_segments) = 0 =>
          combined_audio = EmptyBytes /\ CallsOf("combine") = {} /\ CallsOf("upload") = {}

C5_Witness ==
    /\ pc = "done"
    /\ Len(ordered_segments) = 1
    /\ combined_audio = ordered_segments[1]
    /\ CallsOf("upload") # {}

EndsWith(s, tok) == s # <<>> /\ s[Len(s)] = tok

\* C6: a successful run with audio over 3 written stories calls the Speech
\* Synthesizer 3 times, the Silence Generator 2 times, the Audio Combiner once
\* with 5 segments, and then the Object Storage Uploader once, with a path that
\* ends in written_stories_audio.wav.
C6_ThreeStoriesEndToEnd ==
    pc = "done" /\ with_audio /\ Len(written.stories) = 3 =>
        /\ Cardinality(CallsOf("tts")) = 3
        /\ Cardinality(CallsOf("silence")) = 2
        /\ Cardinality(CallsOf("combine")) = 1
        /\ \A i \in CallsOf("combine") : Len(calls[i].arg) = 5
        /\ Cardinality(CallsOf("upload")) = 1
        /\ \A i \in CallsOf("upload") :
              /\ \A j \in CallsOf("combine") : j < i /\ calls[j].ok
              /\ EndsWith(calls[i].arg, AUDIO_WAV)
              /\ EndsWith(normalized_path(calls[i].arg), AUDIO_WAV)
        /\ \A i \in 1..Len(calls) : calls[i].ok

C6_Witness ==
    /\ pc = "done" /\ with_audio /\ Len(written.stories) = 3
    /\ Cardinality(CallsOf("upload")) = 1
    /\ bunny_prefix = <<>>

PipelineStages == {"Planning", "Writing", "Persisting", "SynthesizingAudio", "Uploading"}
NumberedNotes == {i \in 1..Len(progress) : progress[i].numbered}

\* C7 as stated: every stage entered (Planning, Writing, Persisting,
\* SynthesizingAudio, Uploading) has exactly one progress notification, carrying
\* an index and the run's total with 1 <= index <= total; the indices increase
\* strictly, the total is the same throughout and counts the audio stages when
\* audio is requested.
C7_EveryStageNumbered ==
    /\ \A k \in 1..Len(stages) :
          stages[k] \in PipelineStages =>
              /\ Cardinality(NotesOf(stages[k])) = 1
              /\ \A i \in NotesOf(stages[k]) :
                    /\ progress[i].numbered
                    /\ 1 <= progress[i].index /\ progress[i].index <= progress[i].total
    /\ \A i, j \in NumberedNotes :
          /\ i < j => progress[i].index < progress[j].index
          /\ progress[i].total = progress[j].total
    /\ \A i \in NumberedNotes : with_audio => progress[i].total > 3

\* C7 as amended: entering Planning, Writing and Persisting emits one numbered
\* notification each (index 1, 2, 3); entering SynthesizingAudio emits one
\* notification, numbered 4 in the GUI and without index or total in the CLI;
\* entering Uploading emits none. The numbered notifications of a run have
\* 1 <= index <= total, strictly increasing indices and one total: 4 in the GUI
\* when audio is requested, 3 otherwise.
C7_ProgressNotifications ==
    /\ \A k \in 1..Len(stages) :
          stages[k] \in {"Planning", "Writing", "Persisting"} =>
              /\ Cardinality(NotesOf(stages[k])) = 1
              /\ \A i \in NotesOf(stages[k]) : progress[i].numbered /\ progress[i].index = k
    /\ \A st \in PipelineStages : ~Entered(st) => NotesOf(st) = {}
    /\ Entered("SynthesizingAudio") =>
          /\ Cardinality(NotesOf("SynthesizingAudio")) = 1
          /\ \A i \in NotesOf("SynthesizingAudio") :
                IF frontend = "gui" THEN progress[i].numbered /\ progress[i].index = 4
                ELSE ~progress[i].numbered
    /\ NotesOf("Uploading") = {}
    /\ \A i, j \in NumberedNotes :
          /\ i < j => progress[i].index < progress[j].index
          /\ progress[i].total = progress[j].total
    /\ \A i \in NumberedNotes :
          /\ 1 <= progress[i].index /\ progress[i].index <= progress[i].total
          /\ progress[i].total = IF frontend = "gui" /\ with_audio THEN 4 ELSE 3

C7_Witness ==
    /\ pc = "done" /\ frontend = "gui" /\ Entered("Uploading")
    /\ Cardinality(NumberedNotes) = 4

\* C8: whatever the Story Writer returned to the pipeline carries, for every i,
\* index i (1-based) and the headline of the plan's i-th idea; any other payload
\* is rejected and reaches neither the Persister nor the audio stages.
C8_WriterOutputMatchesPlan ==
    "Writing" \in completed =>
        /\ Len(written.stories) = Len(plan.stories)
        /\ \A i \in 1..Len(written.stories) :
              /\ written.stories[i].index = i
              /\ written.stories[i].headline = plan.stories[i].headline

MissingSetting ==
    \/ gateway_key = <<>>
    \/ with_audio /\ cartesia_key = <<>>
    \/ with_audio /\ \E v \in {bunny.region, bunny.zone, bunny.access_key} : Strip(v) = <<>>

\* C9: with the gateway key missing, or audio requested and the speech key or
\* the storage region, zone or access key missing, the run is rejected before it
\* starts: no stage is entered, no collaborator is called, no directory or file
\* is created.
C9_RejectedBeforeStart ==
    MissingSetting =>
        /\ pc \in {"start", "rejected"}
        /\ pc = "rejected" => error # ""
        /\ calls = <<>>
        /\ stages = <<>>
        /\ progress = <<>>
        /\ disk = EmptyDisk
        /\ tmpfiles = {}

C9_Witness ==
    /\ pc = "rejected" /\ frontend = "cli" /\ with_audio
    /\ gateway_key # <<>> /\ cartesia_key # <<>>
    /\ bunny.region = <<" ">>

Second(now) == now \div TicksPerSecond
MadeDir(j) == saves[j].upto >= 1
FilesWritten(j) == IF MadeDir(j) THEN 1..(saves[j].upto - 1) ELSE {}
SavePairs == {ij \in (1..Len(saves)) \X (1..Len(saves)) :
                ij[1] < ij[2] /\ MadeDir(ij[1]) /\ MadeDir(ij[2])}

\* C10 as stated: any two calls of save_outputs on one output root get different
\* directory names, and the later call neither finds its directory there nor
\* replaces a file of the earlier one.
C10_AlwaysFreshDirectory ==
    \A ij \in SavePairs :
        /\ saves[ij[1]].dir # saves[ij[2]].dir
        /\ ~saves[ij[2]].reused
        /\ saves[ij[2]].clobbered = {}

\* C10 as amended: two calls of save_outputs on one output root whose clock
\* readings fall in different UTC seconds get different directory names, and a
\* call replaces files only of an earlier call with the same topic slug in the
\* same UTC second (whose directory it reuses); the files of a call that no
\* later call shares its directory name with stay on disk as that call wrote
\* them.
C10_FreshDirectoryPerSecond ==
    /\ \A ij \in SavePairs :
          LET a == saves[ij[1]]
              b == saves[ij[2]]
          IN  /\ Second(a.now) # Second(b.now) => a.dir # b.dir
              /\ a.dir = b.dir =>
                    /\ topic_slug_of(a.plan.topic) = topic_slug_of(b.plan.topic)
                    /\ b.reused
                    /\ FilesWritten(ij[1]) \cap FilesWritten(ij[2]) \subseteq b.clobbered
    /\ \A j \in 1..Len(saves) :
          saves[j].reused \/ saves[j].clobbered # {} =>
              \E i \in 1..(j - 1) :
                  /\ MadeDir(i) /\ saves[i].dir = saves[j].dir
                  /\ Second(saves[i].now) = Second(saves[j].now)
    /\ \A i \in 1..Len(saves) :
          (\A j \in (i + 1)..Len(saves) : MadeDir(j) => saves[j].dir # saves[i].dir) =>
              \A k \in FilesWritten(i) :
                  LET f == SavedFiles(saves[i].plan, saves[i].written)[k]
                  IN  /\ HasFile(disk, saves[i].dir, f[1])
                      /\ disk.files[<<saves[i].dir, f[1]>>] = f[2]

C10_Witness ==
    /\ Len(saves) = 2
    /\ saves[1].upto = SaveDone /\ saves[2].upto = SaveDone
    /\ saves[1].plan.topic # saves[2].plan.topic
    /\ topic_slug_of(saves[1].plan.topic) = topic_slug_of(saves[2].plan.topic)
    /\ Second(saves[1].now) # Second(saves[2].now)
    /\ saves[1].dir # saves[2].dir
    /\ Cardinality(DOMAIN disk.files) = 6

\* C11: two calls of save_outputs whose clock readings are at least one second
\* apart get different directory names, whatever their topics (equal, equal in
\* slug only, or different).
C11_DistinctNamesOneSecondApart ==
    \A i, j \in 1..Len(saves) :
        i < j /\ saves[j].now - saves[i].now >= TicksPerSecond =>
            saves[i].dir # saves[j].dir

C11_Witness ==
    /\ Len(saves) = 2
    /\ saves[1].plan.topic = saves[2].plan.topic
    /\ saves[2].now - saves[1].now = TicksPerSecond
    /\ saves[1].upto = SaveDone /\ saves[2].upto = SaveDone
    /\ saves[1].dir # saves[2].dir
    /\ ~saves[2].reused

----------------------------------------------------------------------------
(* audio_utils.py: the Silence Generator, the Audio Combiner and the Object
   Storage Uploader called on their own *)

\* duration_seconds, in tenths: negative, zero, the shortest, the pipeline's
SilenceDurations == {-1, 0, 1, SilenceTenths}

\* audio_segments: lists of 0..MaxSegments buffers
SegmentLists == {Rep(SilenceOf(SilenceTenths), n) : n \in 0..MaxSegments}

\* object_path: empty, slashes only, with empty segments, plain
ObjectPaths == {<<>>, <<"/">>, <<"/", "/">>, <<"/", "p", "/", "/", "f">>, <<"p", "/", "f">>}

AudioUtilsInit ==
    /\ frontend = "cli"
    /\ topic = <<>>
    /\ with_audio = TRUE
    /\ gateway_key = <<>>
    /\ cartesia_key = <<>>
    /\ bunny = BunnyEnv(<<"e">>, <<"z">>, <<"s">>, <<"p">>)
    /\ story_count = STORY_COUNT
    /\ pc = "audio_utils"
    /\ plan = NoPlan
    /\ written = NoWritten
    /\ run_dir = <<>>
    /\ ordered_segments = <<>>
    /\ idx = 0
    /\ combined_audio = EmptyBytes
    /\ disk = EmptyDisk
    /\ tmpfiles = {}
    /\ calls = <<>>
    /\ stages = <<>>
    /\ completed = {}
    /\ progress = <<>>
    /\ error = ""
    /\ clock = 0
    /\ saves = <<>>
    /\ text = <<>>

AudioUtilsIdle ==
    UNCHANGED <<inputs, pc, plan, written, run_dir, ordered_segments, idx, combined_audio,
                disk, stages, completed, progress, clock, saves>>

\* synthesize_silence_segment(duration_seconds=d)
SilenceCall ==
    /\ pc = "audio_utils" /\ Len(calls) < MaxToolCalls
    /\ \E d \in SilenceDurations, outcome \in {"tool_error", "read_error", "ok"} :
         LET r == synthesize_silence_segment(d, outcome)
         IN  /\ calls' = Append(calls, ToolCall("silence", d, r))
             /\ tmpfiles' = tmpfiles \cup r.left
             /\ error' = r.err
    /\ AudioUtilsIdle

\* concatenate_audio_segments(audio_segments=segs)
CombineCall ==
    /\ pc = "audio_utils" /\ Len(calls) < MaxToolCalls
    /\ \E segs \in SegmentLists, outcome \in {"tool_error", "read_error", "ok"} :
         LET r == concatenate_audio_segments(segs, outcome)
         IN  /\ calls' = Append(calls, ToolCall("combine", segs, r))
             /\ tmpfiles' = tmpfiles \cup r.left
             /\ error' = r.err
    /\ AudioUtilsIdle

\* upload_bytes_to_bunny_storage(object_path=path, ...)
PutCall ==
    /\ pc = "audio_utils" /\ Len(calls) < MaxToolCalls
    /\ \E path \in ObjectPaths, outcome \in {"http_error", "ok"} :
         LET r == upload_bytes_to_bunny_storage(path, bunny_zone, bunny_region, outcome)
         IN  /\ calls' = Append(calls, UploadCall(path, r))
             /\ error' = r.err
    /\ UNCHANGED tmpfiles
    /\ AudioUtilsIdle

AudioUtilsNext == SilenceCall \/ CombineCall \/ PutCall

SpecAudioUtils == AudioUtilsInit /\ [][AudioUtilsNext]_vars

\* C12: the temporary files of a Silence Generator or Audio Combiner call are
\* gone once the call is over, whether it returned or failed (audio tool exits
\* non-zero, result cannot be read): every call made so far, whatever files it
\* created, left none, and no temporary file exists between calls.
C12_NoTemporaryFileSurvives ==
    /\ tmpfiles = {}
    /\ \A i \in 1..Len(calls) :
          calls[i].op \in {"silence", "combine"} =>
              /\ calls[i].left = {}
              /\ calls[i].tool_runs = 1 /\ calls[i].err # "CalledProcessError" =>
                    calls[i].created # {}
              /\ calls[i].op = "combine" /\ calls[i].tool_runs = 1 =>
                    Cardinality(calls[i].created) >= Len(calls[i].arg)

C12_Witness ==
    /\ Len(calls) = 2
    /\ calls[1].op = "combine" /\ calls[1].err = "CalledProcessError"
    /\ Cardinality(calls[1].created) = 3
    /\ calls[2].op = "silence" /\ calls[2].err = "OSError" /\ calls[2].created # {}
    /\ tmpfiles = {}

OnlySlashes(path) == \A i \in 1..Len(path) : path[i] = "/"

\* C13: malformed input is refused before anything is done: the Silence
\* Generator with duration <= 0 and the Audio Combiner with fewer than 2
\* segments raise ValueError without running the audio tool or creating a
\* temporary file, and the Object Storage Uploader with a path that holds
\* nothing but slashes raises ValueError without sending the PUT; well-formed
\* input is not refused.
C13_MalformedInputRefusedFirst ==
    \A i \in 1..Len(calls) :
        LET c == calls[i]
            malformed == CASE c.op = "silence" -> c.arg <= 0
                           [] c.op = "combine" -> Len(c.arg) < 2
                           [] c.op = "upload"  -> OnlySlashes(c.arg)
        IN  IF malformed
            THEN /\ c.err = "ValueError"
                 /\ c.tool_runs = 0 /\ c.requests = 0
                 /\ c.created = {} /\ c.left = {}
            ELSE /\ c.err # "ValueError"
                 /\ c.tool_runs + c.requests = 1

C13_Witness ==
    /\ Len(calls) = 2
    /\ calls[1].op = "upload" /\ calls[1].arg = <<"/", "/">> /\ calls[1].err = "ValueError"
    /\ calls[2].op = "combine" /\ Len(calls[2].arg) = 1 /\ calls[2].err = "ValueError"

----------------------------------------------------------------------------
(* audio_utils.py: the Pronunciation Normalizer called on its own *)

HintAlphabet == {"I", "C", "E", " ", "-"}

Texts == UNION {[1..n -> HintAlphabet] : n \in 0..MaxText}

HintsInit ==
    /\ frontend = "cli"
    /\ topic = <<>>
    /\ with_audio = TRUE
    /\ gateway_key = <<>>
    /\ cartesia_key = <<>>
    /\ bunny = BunnyEnv(<<"e">>, <<"z">>, <<"s">>, <<"p">>)
    /\ story_count = STORY_COUNT
    /\ pc = "hints"
    /\ plan = NoPlan
    /\ written = NoWritten
    /\ run_dir = <<>>
    /\ ordered_segments = <<>>
    /\ idx = 0
    /\ combined_audio = EmptyBytes
    /\ disk = EmptyDisk
    /\ tmpfiles = {}
    /\ calls = <<>>
    /\ stages = <<>>
    /\ completed = {}
    /\ progress = <<>>
    /\ error = ""
    /\ clock = 0
    /\ saves = <<>>
    /\ text \in Texts

HintsCall(arg) == Effects("hints", arg, "", 0, 0, {}, {}, apply_pronunciation_hints(arg))

\* _apply_pronunciation_hints(text)
ApplyHints ==
    /\ pc = "hints" /\ Len(calls) < MaxToolCalls
    /\ calls' = Append(calls, HintsCall(text))
    /\ UNCHANGED <<inputs, pc, plan, written, run_dir, ordered_segments, idx, combined_audio,
                   disk, tmpfiles, stages, completed, progress, error, clock, saves>>

\* _apply_pronunciation_hints(the value the last call returned)
ApplyHintsAgain ==
    /\ pc = "hints" /\ calls # <<>> /\ Len(calls) < MaxToolCalls
    /\ calls' = Append(calls, HintsCall(calls[Len(calls)].out))
    /\ UNCHANGED <<inputs, pc, plan, written, run_dir, ordered_segments, idx, combined_audio,
                   disk, tmpfiles, stages, completed, progress, error, clock, saves>>

HintsNext == ApplyHints \/ ApplyHintsAgain

SpecHints == HintsInit /\ [][HintsNext]_vars

\* t holds one of the table's acronyms as a whole word
HasTableAcronym(t) ==
    \E k \in 1..Len(substitutions), i \in 1..Len(t) :
        LET pat == substitutions[k][1]
            j   == i + Len(pat)
        IN  /\ j - 1 <= Len(t)
            /\ SubSeq(t, i, j - 1) = pat
            /\ i = 1 \/ ~IsWordChar(t[i - 1])
            /\ j = Len(t) + 1 \/ ~IsWordChar(t[j])

\* C14: two calls of the Pronunciation Normalizer on equal texts return equal
\* texts, and when the text holds no table acronym as a whole word, a call on
\* the returned text returns it unchanged.
C14_DeterministicAndIdempotent ==
    \A i, j \in 1..Len(calls) :
        /\ calls[i].arg = calls[j].arg => calls[i].out = calls[j].out
        /\ ~HasTableAcronym(calls[i].arg) /\ calls[j].arg = calls[i].out =>
              calls[j].out = calls[i].out

C14_Witness ==
    /\ Len(calls) = 2
    /\ calls[1].arg = <<" ", " ", "I", " ">> /\ ~HasTableAcronym(calls[1].arg)
    /\ calls[1].out = <<"I">>
    /\ calls[2].arg = calls[1].out /\ calls[2].out = <<"I">>

UploadCalls == {i \in 1..Len(calls) : calls[i].op = "upload"}

FileOf(name) == disk.files[<<run_dir, name>>]

other_config_problem == IF frontend = "cli" THEN gui_config_warning ELSE cli_config_error

other_plan_topic_arg == IF frontend = "cli" THEN Strip(topic) ELSE topic

\* C16: the command-line and the GUI front-end (local mode) treat the same
\* inputs alike: the run is rejected before any external call exactly if the
\* other front-end rejects it, and the topic handed to the Plan Generator is the
\* topic the other front-end hands over (the later calls take their arguments
\* from the plan, by the same steps in both).
C16_FrontEndsEquivalent ==
    /\ pc # "start" => ((pc = "rejected") = (other_config_problem # ""))
    /\ pc = "rejected" => calls = <<>>
    /\ \A i \in 1..Len(calls) :
          calls[i].op = "plan" => calls[i].arg = other_plan_topic_arg

====
